---- MODULE Spec2Model ----
(***************************************************************************)
(* A model of the AI consumption tracker (rust/aic_core, rust/aic_app):    *)
(* the providers' get_usage, the usage aggregation, the authentication     *)
(* manager with the persisted provider configuration, and the device-flow  *)
(* commands of the desktop application.                                    *)
(*                                                                         *)
(* Option<T> values are sequences: None is <<>>, Some(x) is <<x>>.         *)
(* A description is a text plus the numbers formatted into it.             *)
(***************************************************************************)
EXTENDS Integers, Sequences, FiniteSets, TLC

VARIABLES
    call,        \* the provider call in progress (ProviderService::get_usage)
    netCalls,    \* outbound requests / child processes started by the call
    aggConfigs,  \* the provider configurations the aggregator fans out over
    aggPc,       \* position of get_all_usage
    aggTasks,    \* one fetch task per configured provider
    aggResult,   \* what get_all_usage returned
    configs,     \* the persisted provider configuration list (auth.json)
    token,       \* GitHubAuthService's in-memory token, an Option
    flow,        \* AppState.device_flow_state, an Option
    wl,          \* the wait_for_login call in progress
    pt,          \* the poll_for_token call in progress
    lo,          \* the logout call in progress
    cc,          \* the config command in progress
    cancelAt,    \* Some(polls made so far) once cancel_github_login hit the current wait
    autoRefresh, \* AppState.auto_refresh_enabled
    refreshers,  \* per trigger, the get_all_usage(true) it has in progress
    fetching,    \* the provider ids whose "a fetch is running" flag is set
    outbound,    \* per provider id, the outbound calls now in flight
    app,         \* the last application of a pure function: name, argument, result
    agent_process, \* AppState.agent_process: the stored child, an Option
    alive,       \* the agent processes that were spawned and have not exited
    spawned      \* how many agent processes were spawned so far

usageVars == <<call, netCalls>>
refreshVars == <<autoRefresh, refreshers, fetching, outbound>>
pureVars == <<app>>
agentVars == <<agent_process, alive, spawned>>
aggVars == <<aggConfigs, aggPc, aggTasks, aggResult, refreshVars, pureVars, agentVars>>
authVars == <<configs, token, flow, wl, pt, lo, cc, cancelAt>>
vars == <<call, netCalls, aggConfigs, aggPc, aggTasks, aggResult,
          configs, token, flow, wl, pt, lo, cc, cancelAt,
          autoRefresh, refreshers, fetching, outbound, app,
          agent_process, alive, spawned>>

None == <<>>
Some(x) == <<x>>
IsSome(o) == Len(o) > 0
Unwrap(o) == o[1]

Min(a, b) == IF a < b THEN a ELSE b

(***************************************************************************)
(* Data model                                                              *)
(***************************************************************************)

\* ProviderUsage::default(), as the tests pin it down.
DefaultUsage ==
    [provider_id |-> "", provider_name |-> "", is_available |-> TRUE,
     description |-> "", desc_args |-> <<>>, usage_percentage |-> 0,
     remaining_percentage |-> None, cost_used |-> 0, cost_limit |-> 0,
     payment_type |-> "UsageBased", usage_unit |-> "USD",
     is_quota_based |-> FALSE, next_reset_time |-> None]

\* DateTime::parse_from_rfc3339(..).ok(): only a well-formed timestamp parses.
ParseRfc3339(s) == IF s = "2026-01-01T00:00:00Z" THEN Some(s) ELSE None

\* A record that only sets id, name, availability and description.
StatusUsage(id, name, avail, text, args) ==
    [DefaultUsage EXCEPT !.provider_id = id, !.provider_name = name,
                         !.is_available = avail, !.description = text,
                         !.desc_args = args]

\* ProviderConfig, the fields get_usage reads.
Config(id, key, url) == [provider_id |-> id, api_key |-> key, base_url |-> url]

\* What the backend of a call does: the HTTP exchange or the local command.
Outcome(kind, status, body) == [kind |-> kind, status |-> status, body |-> body]
NoBody == [shape |-> "none"]

\* (used / total) * 100 when total > 0, else 0, in whole percents.
Utilization(used, total) == IF total > 0 THEN (used * 100) \div total ELSE 0

(***************************************************************************)
(* Providers.  For each one: Early(cfg) is Some(records) when get_usage    *)
(* returns before any request or command is started, and OnBackend(cfg, o) *)
(* is what it returns once the backend has answered with outcome o.        *)
(***************************************************************************)

\* ---- codex.rs
CodexEarly(cfg) ==
    IF cfg.api_key = ""
    THEN Some(<<>>)
    ELSE Some(<<StatusUsage("codex", "Codex", TRUE,
                  "Codex usage tracking (Implementation pending specific API details)", <<>>)>>)

\* ---- simulated.rs
SimulatedEarly(cfg) ==
    Some(<<[DefaultUsage EXCEPT !.provider_id = "simulated",
                               !.provider_name = "Simulated Provider",
                               !.usage_percentage = 45, !.cost_used = 12,
                               !.cost_limit = 100, !.is_quota_based = TRUE,
                               !.description = "45% Used"]>>)

\* ---- deepseek.rs
DeepSeekEarly(cfg) ==
    IF cfg.api_key = ""
    THEN Some(<<StatusUsage("deepseek", "DeepSeek", FALSE, "API Key missing", <<>>)>>)
    ELSE None

DeepSeekNonSuccess(status) ==
    <<StatusUsage("deepseek", "DeepSeek", TRUE, "API Error", <<status>>)>>

DeepSeekOnBackend(cfg, o) ==
    CASE o.kind = "conn_fail" ->
           <<StatusUsage("deepseek", "DeepSeek", FALSE, "Check failed", <<>>)>>
      [] o.kind = "http_error" -> DeepSeekNonSuccess(o.status)
      [] o.kind = "bad_body" ->
           <<StatusUsage("deepseek", "DeepSeek", FALSE, "Parsing failed", <<>>)>>
      [] OTHER ->
           IF ~o.body.is_available
           THEN <<StatusUsage("deepseek", "DeepSeek", FALSE,
                              "Account unavailable or parsing failed", <<>>)>>
           ELSE IF IsSome(o.body.balance_infos) /\ Len(Unwrap(o.body.balance_infos)) > 0
           THEN LET main == Unwrap(o.body.balance_infos)[1] IN
                <<[DefaultUsage EXCEPT
                     !.provider_id = "deepseek", !.provider_name = "DeepSeek",
                     !.is_available = TRUE, !.usage_unit = "Currency",
                     !.payment_type = "Credits",
                     !.description = IF main.currency = "CNY" THEN "Balance: Y"
                                                              ELSE "Balance: $",
                     !.desc_args = <<main.total_balance>>]>>
           ELSE <<StatusUsage("deepseek", "DeepSeek", TRUE, "No balance info found", <<>>)>>

\* ---- minimax.rs
MinimaxEarly(cfg) ==
    IF cfg.api_key = ""
    THEN Some(<<StatusUsage("minimax", "MiniMax (China)", FALSE, "API Key missing", <<>>)>>)
    ELSE None

MinimaxOnBackend(cfg, o) ==
    CASE o.kind = "conn_fail" ->
           <<StatusUsage("minimax", "MiniMax (China)", FALSE, "Connection Failed", <<>>)>>
      [] o.kind = "http_error" ->
           <<StatusUsage("minimax", "MiniMax (China)", FALSE, "API Error", <<o.status>>)>>
      [] o.kind = "bad_body" ->
           <<StatusUsage("minimax", "MiniMax (China)", FALSE, "Failed to parse response", <<>>)>>
      [] OTHER ->
           IF IsSome(o.body.usage)
           THEN LET used == Unwrap(o.body.usage).tokensUsed
                    total == Unwrap(o.body.usage).tokensLimit IN
                <<[DefaultUsage EXCEPT
                     !.provider_id = "minimax", !.provider_name = "MiniMax (China)",
                     !.usage_percentage = Min(Utilization(used, total), 100),
                     !.cost_used = used, !.cost_limit = total,
                     !.payment_type = "UsageBased", !.usage_unit = "Tokens",
                     !.description = IF total > 0 THEN "tokens used / limit"
                                                  ELSE "tokens used",
                     !.desc_args = IF total > 0 THEN <<used, total>> ELSE <<used>>]>>
           ELSE <<StatusUsage("minimax", "MiniMax (China)", FALSE,
                              "Invalid response format", <<>>)>>

\* ---- synthetic.rs
SyntheticEarly(cfg) ==
    IF cfg.api_key = ""
    THEN Some(<<StatusUsage("synthetic", "Synthetic", FALSE, "API Key not found", <<>>)>>)
    ELSE None

SyntheticOnBackend(cfg, o) ==
    CASE o.kind = "conn_fail" ->
           <<StatusUsage("synthetic", "Synthetic", FALSE, "Connection Failed", <<>>)>>
      [] o.kind = "http_error" ->
           <<StatusUsage("synthetic", "Synthetic", FALSE, "API Error", <<o.status>>)>>
      [] o.kind = "bad_body" ->
           <<StatusUsage("synthetic", "Synthetic", FALSE, "Failed to parse response", <<>>)>>
      [] OTHER ->
           IF IsSome(o.body.subscription)
           THEN LET total == Unwrap(o.body.subscription).limit
                    used == Unwrap(o.body.subscription).requests
                    utilization == Utilization(used, total) IN
                <<[DefaultUsage EXCEPT
                     !.provider_id = "synthetic", !.provider_name = "Synthetic",
                     !.usage_percentage = Min(utilization, 100),
                     !.remaining_percentage = Some(100 - Min(utilization, 100)),
                     !.cost_used = used, !.cost_limit = total,
                     !.payment_type = "Quota", !.usage_unit = "Quota %",
                     !.is_quota_based = TRUE,
                     !.description = "% used", !.desc_args = <<utilization>>,
                     !.next_reset_time =
                        IF IsSome(Unwrap(o.body.subscription).renewsAt)
                        THEN ParseRfc3339(Unwrap(Unwrap(o.body.subscription).renewsAt))
                        ELSE None]>>
           ELSE <<StatusUsage("synthetic", "Synthetic", FALSE,
                              "No subscription data found", <<>>)>>

\* ---- cloud_code.rs: no request when a key is present, else the gcloud command.
CloudCodeRecord(connected, message) ==
    <<[DefaultUsage EXCEPT
         !.provider_id = "cloud-code", !.provider_name = "Cloud Code (Google)",
         !.is_available = connected, !.payment_type = "UsageBased",
         !.description = message, !.usage_unit = "Status"]>>

CloudCodeEarly(cfg) ==
    IF cfg.api_key # ""
    THEN Some(CloudCodeRecord(TRUE, "Configured (Key present)"))
    ELSE None

CloudCodeOnBackend(cfg, o) ==
    CASE o.kind = "cmd_ok" -> CloudCodeRecord(TRUE, "Connected (gcloud)")
      [] o.kind = "cmd_fail" -> CloudCodeRecord(FALSE, "gcloud Error")
      [] OTHER -> CloudCodeRecord(FALSE, "gcloud not found")

\* ---- opencode_zen.rs: the key is not read; the CLI is looked up, then run
\* under a 5 s timeout with kill_on_drop.
OpenCodeZenEarly(cfg) == None

OpenCodeZenOnBackend(cfg, o) ==
    CASE o.kind = "cli_missing" ->
           <<StatusUsage("opencode-zen", "OpenCode Zen", FALSE,
                         "CLI not found at expected path", <<>>)>>
      [] o.kind = "cmd_ok" ->
           <<[DefaultUsage EXCEPT
                !.provider_id = "opencode-zen", !.provider_name = "OpenCode Zen",
                !.cost_used = o.body.total_cost, !.usage_unit = "USD",
                !.payment_type = "UsageBased", !.is_available = TRUE,
                !.description = "$ (7 days)", !.desc_args = <<o.body.total_cost>>]>>
      [] OTHER ->
           <<StatusUsage("opencode-zen", "OpenCode Zen", FALSE,
                         "CLI Error (Check log or clear storage if JSON error)", <<>>)>>
\* ---- generic_payg.rs
\* The ids the match on provider_id gives a URL when base_url is None.
GenericHasDefaultUrl(id) ==
    id \in {"opencode", "opencode-zen", "minimax", "xiaomi", "kilocode", "kilo"}

GenericUnavailable(cfg, text, args) ==
    <<StatusUsage(cfg.provider_id, cfg.provider_id, FALSE, text, args)>>

GenericEarly(cfg) ==
    IF cfg.api_key = ""
    THEN Some(GenericUnavailable(cfg, "API Key not found", <<>>))
    ELSE IF cfg.base_url = None /\ ~GenericHasDefaultUrl(cfg.provider_id)
    THEN Some(GenericUnavailable(cfg,
                "Configuration Required (Add 'base_url' to auth.json)", <<>>))
    ELSE None

\* serde_json::from_str::<T>: unknown fields are ignored and a missing Option
\* field is None, so the struct parses unless a field it names is malformed.
ParsesAsCredits(b) == b.shape = "json" /\ b.data \in {"absent", "credits"}
ParsesAsSynthetic(b) == b.shape = "json" /\ b.subscription \in {"absent", "valid"}
ParsesAsKimi(b) == b.shape = "json" /\ b.data \in {"absent", "balance"}

\* The title-cased display name.
GenericDisplayName(cfg) ==
    CASE cfg.provider_id = "generic-pay-as-you-go" -> "Api Example Com"
      [] cfg.provider_id = "xiaomi" -> "Xiaomi"
      [] cfg.provider_id = "custom" -> "Custom"
      [] OTHER -> cfg.provider_id

GenericUsage(cfg, total, used, ptype, reset) ==
    <<[DefaultUsage EXCEPT
         !.provider_id = cfg.provider_id, !.provider_name = GenericDisplayName(cfg),
         !.usage_percentage = Min(Utilization(used, total), 100),
         !.cost_used = used, !.cost_limit = total, !.payment_type = ptype,
         !.usage_unit = "Credits", !.is_quota_based = FALSE,
         !.description = IF IsSome(reset) THEN "credits (Resets)" ELSE "credits",
         !.desc_args = <<used, total>>, !.next_reset_time = reset]>>

\* The three formats, tried in order.
GenericParse(cfg, b) ==
    IF ParsesAsCredits(b)
    THEN IF b.data = "credits"
         THEN GenericUsage(cfg, b.total_credits, b.used_credits, "Credits", None)
         ELSE GenericUsage(cfg, 0, 0, "UsageBased", None)
    ELSE IF ParsesAsSynthetic(b)
    THEN IF b.subscription = "valid"
         THEN GenericUsage(cfg, b.limit, b.requests, "Quota",
                           IF IsSome(b.renewsAt) THEN ParseRfc3339(Unwrap(b.renewsAt))
                                                 ELSE None)
         ELSE GenericUsage(cfg, 0, 0, "UsageBased", None)
    ELSE IF ParsesAsKimi(b)
    THEN IF b.data = "balance"
         THEN GenericUsage(cfg, b.available_balance, 0, "Credits", None)
         ELSE GenericUsage(cfg, 0, 0, "UsageBased", None)
    ELSE GenericUnavailable(cfg, "Unknown response format", <<>>)

GenericOnBackend(cfg, o) ==
    CASE o.kind = "conn_fail" -> GenericUnavailable(cfg, "Connection Failed", <<>>)
      [] o.kind = "http_error" -> GenericUnavailable(cfg, "API Error", <<o.status>>)
      [] o.kind = "bad_body" -> GenericUnavailable(cfg, "Failed to read response", <<>>)
      [] OTHER ->
           IF o.body.shape = "not_found"
           THEN <<StatusUsage(cfg.provider_id, cfg.provider_id, TRUE,
                              "Not Found (Invalid Key/URL)", <<>>)>>
           ELSE GenericParse(cfg, o.body)

(***************************************************************************)
(* The registry, and one call of get_usage                                 *)
(***************************************************************************)

RegisteredIds ==
    {"codex", "simulated", "deepseek", "minimax", "synthetic", "cloud-code",
     "opencode-zen", "generic-pay-as-you-go"}

\* The provider a configuration is handed to: the one registered under its
\* id, else the generic pay-as-you-go fallback.
ProviderFor(id) == IF id \in RegisteredIds THEN id ELSE "generic-pay-as-you-go"

Early(p, cfg) ==
    CASE p = "codex" -> CodexEarly(cfg)
      [] p = "simulated" -> SimulatedEarly(cfg)
      [] p = "deepseek" -> DeepSeekEarly(cfg)
      [] p = "minimax" -> MinimaxEarly(cfg)
      [] p = "synthetic" -> SyntheticEarly(cfg)
      [] p = "cloud-code" -> CloudCodeEarly(cfg)
      [] p = "opencode-zen" -> OpenCodeZenEarly(cfg)
      [] OTHER -> GenericEarly(cfg)

OnBackend(p, cfg, o) ==
    CASE p = "deepseek" -> DeepSeekOnBackend(cfg, o)
      [] p = "minimax" -> MinimaxOnBackend(cfg, o)
      [] p = "synthetic" -> SyntheticOnBackend(cfg, o)
      [] p = "cloud-code" -> CloudCodeOnBackend(cfg, o)
      [] p = "opencode-zen" -> OpenCodeZenOnBackend(cfg, o)
      [] OTHER -> GenericOnBackend(cfg, o)

\* ---- the inputs and backend outcomes the model enumerates
HttpErrorStatuses == {401, 500}
UsedValues == {-5, 5, 20}
LimitValues == {0, 10}

DeepSeekBodies ==
    {[shape |-> "json", is_available |-> FALSE, balance_infos |-> None],
     [shape |-> "json", is_available |-> TRUE, balance_infos |-> None],
     [shape |-> "json", is_available |-> TRUE, balance_infos |-> Some(<<>>)],
     [shape |-> "json", is_available |-> TRUE,
      balance_infos |-> Some(<<[currency |-> "CNY", total_balance |-> 7]>>)],
     [shape |-> "json", is_available |-> TRUE,
      balance_infos |-> Some(<<[currency |-> "USD", total_balance |-> 7]>>)]}

MinimaxBodies ==
    {[shape |-> "json", usage |-> None]} \cup
    {[shape |-> "json", usage |-> Some([tokensUsed |-> u, tokensLimit |-> l])] :
        u \in UsedValues, l \in LimitValues}

SyntheticBodies ==
    {[shape |-> "json", subscription |-> None]} \cup
    {[shape |-> "json",
      subscription |-> Some([limit |-> l, requests |-> u, renewsAt |-> None])] :
        u \in UsedValues, l \in LimitValues} \cup
    {[shape |-> "json",
      subscription |-> Some([limit |-> 10, requests |-> 5, renewsAt |-> Some(r)])] :
        r \in {"2026-01-01T00:00:00Z", "soon"}}

GenericBody(shape, data, sub, total, used, renews) ==
    [shape |-> shape, data |-> data, subscription |-> sub,
     total_credits |-> total, used_credits |-> used, limit |-> total,
     requests |-> used, available_balance |-> total, renewsAt |-> renews]

GenericBodies ==
    {GenericBody("not_found", "absent", "absent", 0, 0, None),
     GenericBody("garbage", "absent", "absent", 0, 0, None),
     GenericBody("json", "absent", "absent", 0, 0, None),
     GenericBody("json", "other", "absent", 0, 0, None),
     GenericBody("json", "other", "invalid", 0, 0, None),
     GenericBody("json", "balance", "absent", 10, 0, None),
     GenericBody("json", "balance", "invalid", 10, 0, None),
     GenericBody("json", "absent", "valid", 10, 5, None),
     GenericBody("json", "other", "valid", 10, 5, Some("2026-01-01T00:00:00Z")),
     GenericBody("json", "other", "valid", 10, 5, Some("soon"))} \cup
    {GenericBody("json", "credits", "absent", l, u, None) :
        u \in UsedValues, l \in LimitValues}

HttpOutcomes(bodies) ==
    {Outcome("conn_fail", 0, NoBody), Outcome("bad_body", 200, NoBody)} \cup
    {Outcome("http_error", s, NoBody) : s \in HttpErrorStatuses} \cup
    {Outcome("ok", 200, b) : b \in bodies}

BackendOutcomes(p) ==
    CASE p = "deepseek" -> HttpOutcomes(DeepSeekBodies)
      [] p = "minimax" -> HttpOutcomes(MinimaxBodies)
      [] p = "synthetic" -> HttpOutcomes(SyntheticBodies)
      [] p = "cloud-code" ->
           {Outcome(k, 0, NoBody) : k \in {"cmd_ok", "cmd_fail", "cmd_missing"}}
      [] p = "opencode-zen" ->
           {Outcome(k, 0, NoBody) : k \in {"cli_missing", "cmd_fail", "cmd_timeout"}} \cup
           {Outcome("cmd_ok", 0, [shape |-> "stats", total_cost |-> 12])}
      [] OTHER -> HttpOutcomes(GenericBodies)

ApiKeys == {"", "sk-test"}
ConfigIds == RegisteredIds \cup {"xiaomi", "custom"}

\* base_url only changes what a generic-routed configuration does.
ProviderConfigs ==
    {Config(id, k, None) : id \in ConfigIds, k \in ApiKeys} \cup
    {Config(id, k, Some("api.example.com")) :
        id \in {"custom", "generic-pay-as-you-go"}, k \in ApiKeys}

IdleCall ==
    [pc |-> "idle", provider |-> "", config |-> Config("", "", None),
     outcome |-> Outcome("none", 0, NoBody), records |-> <<>>]

\* get_usage is entered: it returns at once when the provider needs no
\* backend, else the request (or the command) is started.
Invoke(cfg) ==
    LET p == ProviderFor(cfg.provider_id) IN
    /\ call.pc = "idle"
    /\ IF IsSome(Early(p, cfg))
       THEN /\ call' = [IdleCall EXCEPT !.pc = "returned", !.provider = p,
                                        !.config = cfg,
                                        !.records = Unwrap(Early(p, cfg))]
            /\ netCalls' = 0
       ELSE /\ call' = [IdleCall EXCEPT !.pc = "awaiting", !.provider = p,
                                        !.config = cfg]
            /\ netCalls' = 1
    /\ UNCHANGED <<aggVars, authVars>>

\* The backend answers and get_usage returns.
Respond(o) ==
    /\ call.pc = "awaiting"
    /\ o \in BackendOutcomes(call.provider)
    /\ call' = [call EXCEPT !.pc = "returned", !.outcome = o,
                            !.records = OnBackend(call.provider, call.config, o)]
    /\ UNCHANGED <<netCalls, aggVars, authVars>>

\* The gcloud command never exits: cloud_code.rs waits for it with the
\* blocking std::process::Command::output(), under no timeout, so get_usage
\* stays in that call and the child keeps running.  (opencode_zen.rs runs its
\* command under timeout(5 s) with kill_on_drop: there the same command is
\* the outcome cmd_timeout of Respond.)
GcloudNeverExits ==
    /\ call.pc = "awaiting"
    /\ call.provider = "cloud-code"
    /\ call' = [call EXCEPT !.pc = "blocked",
                            !.outcome = Outcome("cmd_hang", 0, NoBody)]
    /\ UNCHANGED <<netCalls, aggVars, authVars>>

\* The caller takes the result; the provider can be called again.
Finish ==
    /\ call.pc = "returned"
    /\ call' = IdleCall
    /\ netCalls' = 0
    /\ UNCHANGED <<aggVars, authVars>>
(***************************************************************************)
(* The aggregator: get_all_usage fans out one fetch per configured         *)
(* provider, each under its own timeout, and merges what they return in    *)
(* the order of the configurations.                                        *)
(***************************************************************************)

MaxConfigs == 2

IdOrder ==
    <<"codex", "simulated", "deepseek", "minimax", "synthetic", "cloud-code",
      "opencode-zen", "generic-pay-as-you-go", "xiaomi", "custom">>
Rank(id) == CHOOSE i \in 1..Len(IdOrder) : IdOrder[i] = id

\* The configured sets: at most MaxConfigs entries, one per provider id.
ConfigLists ==
    {cs \in UNION {[1..n -> ProviderConfigs] : n \in 0..MaxConfigs} :
        \A i \in 1..Len(cs) : \A j \in 1..Len(cs) :
            i < j => Rank(cs[i].provider_id) < Rank(cs[j].provider_id)}

TimeoutRecord(cfg) ==
    <<StatusUsage(cfg.provider_id, cfg.provider_id, FALSE, "Timeout", <<>>)>>

Task(state, records) == [state |-> state, records |-> records]

\* The task of configuration cfg right after get_usage was entered.
SpawnTask(cfg) ==
    LET p == ProviderFor(cfg.provider_id) IN
    IF IsSome(Early(p, cfg)) THEN Task("done", Unwrap(Early(p, cfg)))
                             ELSE Task("awaiting", <<>>)

RECURSIVE Merge(_)
Merge(tasks) ==
    IF Len(tasks) = 0 THEN <<>>
    ELSE tasks[1].records \o Merge(Tail(tasks))

GetAllUsageStart ==
    /\ aggPc = "idle"
    /\ aggPc' = "running"
    /\ aggTasks' = [i \in 1..Len(aggConfigs) |-> SpawnTask(aggConfigs[i])]
    /\ UNCHANGED <<aggConfigs, aggResult, refreshVars, pureVars, agentVars, usageVars, authVars>>

TaskRespond(i, o) ==
    /\ aggPc = "running"
    /\ aggTasks[i].state = "awaiting"
    /\ o \in BackendOutcomes(ProviderFor(aggConfigs[i].provider_id))
    /\ aggTasks' = [aggTasks EXCEPT ![i] =
          Task("done", OnBackend(ProviderFor(aggConfigs[i].provider_id),
                                 aggConfigs[i], o))]
    /\ UNCHANGED <<aggConfigs, aggPc, aggResult, refreshVars, pureVars, agentVars, usageVars, authVars>>

TaskTimeout(i) ==
    /\ aggPc = "running"
    /\ aggTasks[i].state = "awaiting"
    /\ aggTasks' = [aggTasks EXCEPT ![i] = Task("timed_out", TimeoutRecord(aggConfigs[i]))]
    /\ UNCHANGED <<aggConfigs, aggPc, aggResult, refreshVars, pureVars, agentVars, usageVars, authVars>>

\* The gcloud command of a cloud-code task never exits (GcloudNeverExits):
\* the task sits in a blocking call that has no await, so the timeout set
\* around the invocation is never polled and cannot end it.
TaskGcloudNeverExits(i) ==
    /\ aggPc = "running"
    /\ aggTasks[i].state = "awaiting"
    /\ ProviderFor(aggConfigs[i].provider_id) = "cloud-code"
    /\ aggTasks' = [aggTasks EXCEPT ![i] = Task("blocked", <<>>)]
    /\ UNCHANGED <<aggConfigs, aggPc, aggResult, refreshVars, pureVars, agentVars, usageVars, authVars>>

GetAllUsageJoin ==
    /\ aggPc = "running"
    /\ \A i \in 1..Len(aggTasks) : aggTasks[i].state \in {"done", "timed_out"}
    /\ aggResult' = Merge(aggTasks)
    /\ aggPc' = "done"
    /\ UNCHANGED <<aggConfigs, aggTasks, refreshVars, pureVars, agentVars, usageVars, authVars>>
(***************************************************************************)
(* Overlapping refreshes.  The application calls get_all_usage(true) from  *)
(* three places that run concurrently: the auto-refresh task and the       *)
(* commands get_usage and refresh_usage.  None of them holds a lock over   *)
(* the call; the guard per provider id is the aggregator's.                *)
(***************************************************************************)

Triggers == {"auto", "get_usage", "refresh_usage"}

IdleRefresher == [pc |-> "idle", awaiting |-> {}]

\* The ids of the configured providers whose fetch goes to a backend.
BackendIds(cs) ==
    {cs[i].provider_id : i \in {j \in 1..Len(cs) : SpawnTask(cs[j]).state = "awaiting"}}

\* An aggregator that issues the call whether or not one is running.
StartsFetchUnguarded(id, running) == TRUE

\* The in-flight guard: a fetch for id is started only when none is running.
StartsFetch(id, running) == id \notin running

\* toggle_auto_refresh(enabled)
ToggleAutoRefresh(enabled) ==
    /\ autoRefresh' = enabled
    /\ UNCHANGED <<aggConfigs, aggPc, aggTasks, aggResult, refreshers, fetching,
                   outbound, pureVars, agentVars, usageVars, authVars>>

\* A trigger enters get_all_usage(true): the timer's tick when auto-refresh
\* is enabled, or one of the two commands.  Each configured provider whose
\* guard allows it gets one outbound call; the caller waits for all of them.
RefreshStart(t) ==
    LET ids == BackendIds(aggConfigs)
        new == {id \in ids : StartsFetch(id, fetching)} IN
    /\ refreshers[t].pc = "idle"
    /\ t = "auto" => autoRefresh
    /\ refreshers' = [refreshers EXCEPT ![t] = [pc |-> "running", awaiting |-> ids]]
    /\ fetching' = fetching \cup new
    /\ outbound' = [id \in DOMAIN outbound |->
                       IF id \in new THEN outbound[id] + 1 ELSE outbound[id]]
    /\ UNCHANGED <<aggConfigs, aggPc, aggTasks, aggResult, autoRefresh,
                   pureVars, agentVars, usageVars, authVars>>

\* One outbound call for id ends (answer, failure or timeout).  When it was
\* the last one the flag is cleared and the callers waiting on id go on.
FetchEnds(id) ==
    /\ outbound[id] > 0
    /\ outbound' = [outbound EXCEPT ![id] = @ - 1]
    /\ IF outbound[id] = 1
       THEN /\ fetching' = fetching \ {id}
            /\ refreshers' = [t \in Triggers |->
                                 [refreshers[t] EXCEPT !.awaiting = @ \ {id}]]
       ELSE UNCHANGED <<fetching, refreshers>>
    /\ UNCHANGED <<aggConfigs, aggPc, aggTasks, aggResult, autoRefresh,
                   pureVars, agentVars, usageVars, authVars>>

\* get_all_usage returns to the trigger.
RefreshReturn(t) ==
    /\ refreshers[t].pc = "running"
    /\ refreshers[t].awaiting = {}
    /\ refreshers' = [refreshers EXCEPT ![t] = IdleRefresher]
    /\ UNCHANGED <<aggConfigs, aggPc, aggTasks, aggResult, autoRefresh, fetching,
                   outbound, pureVars, agentVars, usageVars, authVars>>
(***************************************************************************)
(* privacy.rs: mask_content.  A string is the sequence of its characters;  *)
(* Rust measures and slices it in bytes, and slicing inside a character    *)
(* panics, so every character carries its UTF-8 width.                     *)
(***************************************************************************)

NoApp == [fn |-> "none", arg |-> <<>>, out |-> <<>>]

ByteWidth(c) == IF c = "é" THEN 2 ELSE 1

RECURSIVE ByteLen(_)
ByteLen(str) == IF str = <<>> THEN 0 ELSE ByteWidth(Head(str)) + ByteLen(Tail(str))

Stars(n) == [i \in 1..n |-> "*"]

MaskOk(str) == [kind |-> "some", text |-> str]
MaskPanic == [kind |-> "panic", text |-> <<>>]
MaskNone == [kind |-> "none", text |-> <<>>]

\* &s[..1] and &s[s.len() - 1..] cut one byte off each end.
SliceEndsPanic(str) == ByteWidth(str[1]) # 1 \/ ByteWidth(str[Len(str)]) # 1

\* A mask that tells the length of what it hides by one star too many.
mask_string_one_more(str) == MaskOk(Stars(ByteLen(str) + 1))

mask_string(str) ==
    IF ByteLen(str) <= 1 THEN MaskOk(<<"*">>)
    ELSE IF ByteLen(str) = 2 THEN MaskOk(<<"*", "*">>)
    ELSE IF SliceEndsPanic(str) THEN MaskPanic
    ELSE MaskOk(<<str[1]>> \o Stars(ByteLen(str) - 2) \o <<str[Len(str)]>>)

\* str::contains
Contains(str, pat) ==
    \E i \in 1..(Len(str) + 1) :
       /\ i + Len(pat) - 1 <= Len(str)
       /\ SubSeq(str, i, i + Len(pat) - 1) = pat

\* str::replace: the matches are taken left to right and do not overlap; an
\* empty pattern matches before every character and at the end.
RECURSIVE Replace(_, _, _)
Replace(str, pat, to) ==
    IF pat = <<>>
    THEN IF str = <<>> THEN to
         ELSE to \o <<Head(str)>> \o Replace(Tail(str), pat, to)
    ELSE IF Len(str) < Len(pat) THEN str
    ELSE IF SubSeq(str, 1, Len(pat)) = pat
         THEN to \o Replace(SubSeq(str, Len(pat) + 1, Len(str)), pat, to)
         ELSE <<Head(str)>> \o Replace(Tail(str), pat, to)

\* str::split_whitespace: the maximal runs of non-space characters.
RECURSIVE SplitWhitespace(_, _)
SplitWhitespace(str, word) ==
    IF str = <<>> THEN (IF word = <<>> THEN <<>> ELSE <<word>>)
    ELSE IF Head(str) = " "
         THEN (IF word = <<>> THEN <<>> ELSE <<word>>) \o SplitWhitespace(Tail(str), <<>>)
         ELSE SplitWhitespace(Tail(str), Append(word, Head(str)))

Occurrences(str, c) == Cardinality({i \in 1..Len(str) : str[i] = c})
FirstIndex(str, c) == CHOOSE i \in 1..Len(str) :
                         /\ str[i] = c
                         /\ \A j \in 1..(i - 1) : str[j] # c

mask_single_email(email) ==
    IF Occurrences(email, "@") # 1 THEN mask_string(email)
    ELSE LET at == FirstIndex(email, "@")
             local == SubSeq(email, 1, at - 1)
             domain == SubSeq(email, at + 1, Len(email)) IN
         IF ByteLen(local) <= 2
         THEN MaskOk(Stars(ByteLen(local)) \o <<"@">> \o domain)
         ELSE IF SliceEndsPanic(local) THEN MaskPanic
         ELSE MaskOk(<<local[1], ".", ".", ".", local[Len(local)], "@">> \o domain)

\* The loop of mask_emails_in_string over the words of the input: each
\* email word is replaced wherever it occurs in the result so far.
RECURSIVE MaskWords(_, _)
MaskWords(result, words) ==
    IF words = <<>> THEN MaskOk(result)
    ELSE LET word == Head(words) IN
         IF Contains(word, <<"@">>) /\ Contains(word, <<".">>)
         THEN LET masked == mask_single_email(word) IN
              IF masked.kind = "panic" THEN MaskPanic
              ELSE MaskWords(Replace(result, word, masked.text), Tail(words))
         ELSE MaskWords(result, Tail(words))

mask_emails_in_string(str) == MaskWords(str, SplitWhitespace(str, <<>>))

\* input and account_name are Options.
mask_content(input, account_name) ==
    IF input = None THEN MaskNone
    ELSE LET str == Unwrap(input) IN
         IF str = <<>> THEN MaskOk(str)
         ELSE IF IsSome(account_name) /\ Contains(str, Unwrap(account_name))
              THEN LET masked == mask_string(Unwrap(account_name)) IN
                   IF masked.kind = "panic" THEN MaskPanic
                   ELSE MaskOk(Replace(str, Unwrap(account_name), masked.text))
         ELSE IF Contains(str, <<"@">>) THEN mask_emails_in_string(str)
         ELSE mask_string(str)

\* The words the texts are made of: plain words, words with a two-byte
\* letter, emails, and words with an '@' that are not emails.
Words ==
    {<<"a">>, <<"a", "b">>, <<"a", "b", "a">>, <<"a", "a", "a">>,
     <<"é">>, <<"é", "a">>,
     <<"a", "@", "b", ".", "c">>, <<"b", "a", "@", "b", ".", "c">>,
     <<"a", "b", "a", "@", "b", ".", "c">>, <<"a", "@", "@", "b", ".", "c">>,
     <<"a", "@", "b", "c">>, <<"é", "a", "b", "@", "b", ".", "c">>}
Spacings == {<<" ">>, <<" ", " ">>}
MaxWords == 2

RECURSIVE TextsOf(_)
TextsOf(n) ==
    IF n = 0 THEN {<<>>}
    ELSE IF n = 1 THEN Words
    ELSE {t \o sp \o w : t \in TextsOf(n - 1), sp \in Spacings, w \in Words}
Texts == UNION {TextsOf(n) : n \in 0..MaxWords}

AccountNames ==
    {None, Some(<<>>), Some(<<"a">>), Some(<<"a", "a">>), Some(<<"a", "b", "a">>),
     Some(<<"é", "a">>), Some(<<"b", "c">>)}

MaskCall(input, account_name) ==
    /\ app = NoApp
    /\ app' = [fn |-> "mask_content",
               arg |-> [input |-> input, account_name |-> account_name],
               out |-> mask_content(input, account_name)]
    /\ UNCHANGED <<aggConfigs, aggPc, aggTasks, aggResult, refreshVars,
                   agentVars, usageVars, authVars>>

\* The caller has taken the result.
AppReturn ==
    /\ app # NoApp
    /\ app' = NoApp
    /\ UNCHANGED <<aggConfigs, aggPc, aggTasks, aggResult, refreshVars,
                   agentVars, usageVars, authVars>>
(***************************************************************************)
(* The status output of the command line: show_status prints the records  *)
(* of get_all_usage as a table or as JSON.  A table row is modelled by its *)
(* provider and description columns, a JSON element by the record.         *)
(***************************************************************************)

\* char::to_lowercase over the letters the provider names are made of.
LowerOf(c) ==
    IF c = "A" THEN "a" ELSE IF c = "B" THEN "b" ELSE IF c = "Z" THEN "z" ELSE c
ToLowercase(str) == [i \in 1..Len(str) |-> LowerOf(str[i])]

\* The code points of those letters: the capitals come before the small ones.
CharCode(c) ==
    CASE c = "A" -> 65 [] c = "B" -> 66 [] c = "Z" -> 90
      [] c = "a" -> 97 [] c = "b" -> 98 [] c = "z" -> 122

\* Ord of String: lexicographic, a proper prefix first.
RECURSIVE StrLess(_, _)
StrLess(a, b) ==
    IF b = <<>> THEN FALSE
    ELSE IF a = <<>> THEN TRUE
    ELSE IF Head(a) = Head(b) THEN StrLess(Tail(a), Tail(b))
    ELSE CharCode(Head(a)) < CharCode(Head(b))

\* The comparison handed to sort_by.
NameBefore(a, b) ==
    StrLess(ToLowercase(a.provider_name), ToLowercase(b.provider_name))

\* sort_by is stable: equal names keep their order.
RECURSIVE InsertSorted(_, _)
InsertSorted(sorted, u) ==
    IF sorted = <<>> THEN <<u>>
    ELSE IF NameBefore(u, Head(sorted)) THEN <<u>> \o sorted
    ELSE <<Head(sorted)>> \o InsertSorted(Tail(sorted), u)
RECURSIVE SortByName(_)
SortByName(list) ==
    IF list = <<>> THEN <<>>
    ELSE InsertSorted(SortByName(SubSeq(list, 1, Len(list) - 1)), list[Len(list)])

\* str::trim
RECURSIVE Trim(_)
Trim(str) ==
    IF str = <<>> THEN str
    ELSE IF Head(str) = " " THEN Trim(Tail(str))
    ELSE IF str[Len(str)] = " " THEN Trim(SubSeq(str, 1, Len(str) - 1))
    ELSE str

\* The description column of a table row.
TableCell(u) ==
    LET account_info == IF u.account_name = <<>> THEN <<>>
                        ELSE <<" ", "[">> \o u.account_name \o <<"]">> IN
    IF u.description = <<>> THEN Trim(account_info)
    ELSE u.description \o account_info

FilteredUsage(usage, show_all) ==
    IF show_all THEN usage ELSE SelectSeq(usage, LAMBDA u : u.is_available)

show_status(usage, show_all, json) ==
    LET filtered_usage == FilteredUsage(usage, show_all) IN
    IF json THEN [form |-> "json", rows |-> filtered_usage]
    ELSE LET sorted == SortByName(filtered_usage) IN
         [form |-> "table",
          rows |-> [i \in 1..Len(sorted) |->
                      [provider_name |-> sorted[i].provider_name,
                       cell |-> TableCell(sorted[i])]]]

\* The records get_all_usage hands to show_status.
StatusNames == {<<"Z">>, <<"a">>, <<"B">>, <<"b">>}
StatusAccounts == {<<>>, <<"j", "o", "e">>}
StatusDescriptions == {<<>>, <<"u", "p">>}
StatusRecords ==
    [provider_name : StatusNames, account_name : StatusAccounts,
     description : StatusDescriptions, is_available : BOOLEAN]
MaxRecords == 3
StatusUsages == UNION {[1..n -> StatusRecords] : n \in 0..MaxRecords}

ShowStatusCall(usage, show_all, json) ==
    /\ app = NoApp
    /\ app' = [fn |-> "show_status",
               arg |-> [usage |-> usage, show_all |-> show_all, json |-> json],
               out |-> show_status(usage, show_all, json)]
    /\ UNCHANGED <<aggConfigs, aggPc, aggTasks, aggResult, refreshVars,
                   agentVars, usageVars, authVars>>


(***************************************************************************)
(* The companion agent: AppState.agent_process holds the std::process::    *)
(* Child of the agent the application started.  Each command holds the     *)
(* mutex from its first line to its return, so the commands are steps.     *)
(***************************************************************************)
MaxSpawns == 3

\* Child::try_wait: Ok(None) while the process runs, Ok(Some(status)) once it
\* has exited, Err when the status cannot be read.
TryWait(pid, err) ==
    IF err THEN "Err" ELSE IF pid \in alive THEN "Ok(None)" ELSE "Ok(Some)"

AgentCall(fn, err, reply, child) ==
    app' = [fn |-> fn,
            arg |-> [stored |-> agent_process,
                     try_wait |-> IF IsSome(agent_process)
                                  THEN TryWait(Unwrap(agent_process), err)
                                  ELSE "none"],
            out |-> [reply |-> reply, spawned |-> child]]

\* start_agent: found is whether an agent executable exists at one of the
\* paths, spawn_ok whether Command::spawn succeeded.
start_agent(found, spawn_ok, err) ==
    LET tw == IF IsSome(agent_process) THEN TryWait(Unwrap(agent_process), err)
              ELSE "none" IN
    IF tw = "Ok(Some)"
    THEN /\ AgentCall("start_agent", err, "Ok(true)", None)
         /\ UNCHANGED <<agent_process, alive, spawned>>
    ELSE IF ~found
    THEN /\ AgentCall("start_agent", err, "Err(Agent executable not found)", None)
         /\ agent_process' = None
         /\ UNCHANGED <<alive, spawned>>
    ELSE IF ~spawn_ok
    THEN /\ AgentCall("start_agent", err, "Err(Failed to start agent)", None)
         /\ agent_process' = None
         /\ UNCHANGED <<alive, spawned>>
    ELSE /\ spawned < MaxSpawns
         /\ AgentCall("start_agent", err, "Ok(true)", Some(spawned + 1))
         /\ agent_process' = Some(spawned + 1)
         /\ alive' = alive \cup {spawned + 1}
         /\ spawned' = spawned + 1

\* stop_agent: the child is taken out of the state and dropped; dropping a
\* std::process::Child neither kills the process nor waits for it.
stop_agent(err) ==
    /\ AgentCall("stop_agent", err,
                 IF IsSome(agent_process)
                    /\ TryWait(Unwrap(agent_process), err) = "Ok(None)"
                 THEN "Ok(true)" ELSE "Ok(false)", None)
    /\ agent_process' = None
    /\ UNCHANGED <<alive, spawned>>

is_agent_running(err) ==
    LET running == IsSome(agent_process)
                      /\ TryWait(Unwrap(agent_process), err) = "Ok(None)" IN
    /\ AgentCall("is_agent_running", err,
                 IF running THEN "Ok(true)" ELSE "Ok(false)", None)
    /\ agent_process' = IF running THEN agent_process ELSE None
    /\ UNCHANGED <<alive, spawned>>

AgentCommand ==
    /\ app = NoApp
    /\ \/ \E found \in BOOLEAN : \E spawn_ok \in BOOLEAN : \E err \in BOOLEAN :
             start_agent(found, spawn_ok, err)
       \/ \E err \in BOOLEAN : stop_agent(err)
       \/ \E err \in BOOLEAN : is_agent_running(err)
    /\ UNCHANGED <<aggConfigs, aggPc, aggTasks, aggResult, refreshVars,
                   usageVars, authVars>>

\* An agent process exits by itself.
AgentExits(pid) ==
    /\ pid \in alive
    /\ alive' = alive \ {pid}
    /\ UNCHANGED <<agent_process, spawned, app, aggConfigs, aggPc, aggTasks,
                   aggResult, refreshVars, usageVars, authVars>>

(***************************************************************************)
(* Authentication: the persisted configuration list, the in-memory token   *)
(* of GitHubAuthService, and the operations of AuthenticationManager and   *)
(* of the application's commands.  A step is what runs between two awaits: *)
(* load_config and save_config are separate steps of one operation.        *)
(***************************************************************************)

CopilotId == "github-copilot"

Entry(id, key, tray) == [provider_id |-> id, api_key |-> key, show_in_tray |-> tray]

\* iter().find(|c| c.provider_id == id): the first match, 0 when there is none.
FindFirst(cs, id) ==
    IF \E i \in 1..Len(cs) : cs[i].provider_id = id
    THEN CHOOSE i \in 1..Len(cs) :
            /\ cs[i].provider_id = id
            /\ \A j \in 1..(i - 1) : cs[j].provider_id # id
    ELSE 0

\* A save that pushes a new entry without looking for an existing one.
SaveTokenListAlwaysAppends(cs, t) == Append(cs, Entry(CopilotId, t, TRUE))

\* save_token: what is written back for the list that was loaded.
SaveTokenList(cs, t) ==
    IF FindFirst(cs, CopilotId) > 0
    THEN [cs EXCEPT ![FindFirst(cs, CopilotId)].api_key = t]
    ELSE Append(cs, Entry(CopilotId, t, TRUE))

\* A logout that drops the entry instead of clearing its key.
LogoutListRemovesEntry(cs) == SelectSeq(cs, LAMBDA c : c.provider_id # CopilotId)

\* logout: the entry stays, with its key cleared.
LogoutList(cs) == [cs EXCEPT ![FindFirst(cs, CopilotId)].api_key = ""]

\* An upsert that drops the old entry and pushes the new one at the end.
UpsertConfigMovesToEnd(cs, c) ==
    Append(SelectSeq(cs, LAMBDA d : d.provider_id # c.provider_id), c)

\* An upsert that pushes without looking for the id.
UpsertConfigAlwaysPushes(cs, c) == Append(cs, c)

\* save_provider_config: replace in place or push.
UpsertConfig(cs, c) ==
    IF FindFirst(cs, c.provider_id) > 0
    THEN [cs EXCEPT ![FindFirst(cs, c.provider_id)] = c]
    ELSE Append(cs, c)

\* What load_config gives back after save_config(list): auth.json is one
\* JSON object with a member per provider id, so a list that names an id
\* twice is stored with one entry for it, the last one given.
RECURSIVE StoredList(_)
StoredList(list) ==
    IF list = <<>> THEN <<>>
    ELSE UpsertConfig(StoredList(SubSeq(list, 1, Len(list) - 1)), list[Len(list)])

\* remove_provider_config: retain(|c| c.provider_id != provider_id).
RemoveConfig(cs, id) == SelectSeq(cs, LAMBDA c : c.provider_id # id)

\* An initialisation that does not test the key for emptiness.
InitTokenLoadsEmptyKey(cs, tok) ==
    IF FindFirst(cs, CopilotId) > 0
    THEN Some(cs[FindFirst(cs, CopilotId)].api_key)
    ELSE tok

\* initialize_from_config: the token memory holds after the load.
InitToken(cs, tok) ==
    IF FindFirst(cs, CopilotId) > 0 /\ cs[FindFirst(cs, CopilotId)].api_key # ""
    THEN Some(cs[FindFirst(cs, CopilotId)].api_key)
    ELSE tok

\* GitHubAuthService::is_authenticated / get_current_token.
IsAuthenticated == IsSome(token)
GetCurrentToken == token

\* ---- TokenPollResult
PollRes(kind, value) == [kind |-> kind, value |-> value]
NoPoll == PollRes("none", "")
ServerTokens == {"gho_new"}
PollResults ==
    {PollRes(k, "") : k \in {"Pending", "SlowDown", "Expired", "AccessDenied"}} \cup
    {PollRes("Error", "network")} \cup
    {PollRes("Token", t) : t \in ServerTokens}
TerminalFailures == {"Expired", "AccessDenied", "Error"}

\* ---- poll_for_token of GitHubAuthService: one request to the token
\* endpoint, and the reply it got mapped to a TokenPollResult.
Reply(kind, error, access_token) ==
    [kind |-> kind, error |-> error, access_token |-> access_token]
ErrorCodes ==
    {"authorization_pending", "slow_down", "expired_token", "access_denied",
     "unsupported_grant_type", "incorrect_device_code"}
EndpointReplies ==
    {Reply("json", Some(e), None) : e \in ErrorCodes} \cup
    {Reply("json", None, Some(t)) : t \in ServerTokens} \cup
    {Reply("json", None, None), Reply("not_json", None, None),
     Reply("transport_failure", None, None)}

\* A mapping that takes slow_down for one more pending.
PollOnceSlowDownAsPending(reply) ==
    IF reply.kind = "json" /\ IsSome(reply.access_token)
    THEN PollRes("Token", Unwrap(reply.access_token))
    ELSE IF reply.kind = "json" /\ IsSome(reply.error)
              /\ Unwrap(reply.error) \in {"authorization_pending", "slow_down"}
    THEN PollRes("Pending", "")
    ELSE PollRes("Error", "network")

PollOnce(reply) ==
    IF reply.kind # "json" THEN PollRes("Error", "network")
    ELSE IF IsSome(reply.access_token)
    THEN PollRes("Token", Unwrap(reply.access_token))
    ELSE IF reply.error = Some("authorization_pending") THEN PollRes("Pending", "")
    ELSE IF reply.error = Some("slow_down") THEN PollRes("SlowDown", "")
    ELSE IF reply.error = Some("expired_token") THEN PollRes("Expired", "")
    ELSE IF reply.error = Some("access_denied") THEN PollRes("AccessDenied", "")
    ELSE PollRes("Error", "network")

\* One poll of the token endpoint, taken alone.
PollOnceCall(reply) ==
    /\ app = NoApp
    /\ app' = [fn |-> "poll_once", arg |-> reply, out |-> PollOnce(reply)]
    /\ UNCHANGED <<aggConfigs, aggPc, aggTasks, aggResult, refreshVars,
                   agentVars, usageVars, authVars>>

\* ---- complete_device_flow: sleep the interval, poll, decide.
MaxAttempts == 2
SlowDownStep == 5
InitialInterval == 5

\* A loop that backs off on every poll that brings no token.
NextIntervalBacksOffOnPending(iv, r) ==
    IF r.kind \in {"SlowDown", "Pending"} THEN iv + SlowDownStep ELSE iv

NextInterval(iv, r) == IF r.kind = "SlowDown" THEN iv + SlowDownStep ELSE iv

\* A loop that gives up on the first poll that brings no token.
FlowVerdictStopOnPending(r, n) == IF r.kind = "Token" THEN "ok" ELSE "err"

\* A loop without an attempt bound.
FlowVerdictNoBound(r, n) ==
    CASE r.kind = "Token" -> "ok"
      [] r.kind \in {"Pending", "SlowDown"} -> "continue"
      [] OTHER -> "err"

\* What the loop does after its n-th poll returned r.
FlowVerdict(r, n) ==
    CASE r.kind = "Token" -> "ok"
      [] r.kind \in {"Pending", "SlowDown"} ->
           IF n < MaxAttempts THEN "continue" ELSE "err"
      [] OTHER -> "err"

\* ---- wait_for_login
\* A wait that reports a failed flow as a login.
WaitForLoginErrAsLogin(r) == "true"

\* The Err arm: the failure is logged and Ok(false) returned.
WaitForLoginOnErr(r) == "false"

\* A wait that drops the result of save_token.
WaitForLoginIgnoringSave(ok) == "true"

\* The Ok arm: save_token(..).await? and then Ok(true).
WaitForLoginOnSave(ok) == IF ok THEN "true" ELSE "error"

\* complete_github_login: the flow state is cleared when wait_for_login
\* returned Ok(_), and kept when it returned Err(_).
CompleteLoginFlow(result, f) == IF result \in {"true", "false"} THEN None ELSE f

IdleWl ==
    [pc |-> "idle", interval |-> 0, slept |-> 0, attempts |-> 0, last |-> NoPoll,
     snap |-> <<>>, result |-> "none"]

\* Commands run concurrently; the model lets MaxInFlight of them overlap.
MaxInFlight == 2
Busy(p) == IF p.pc = "idle" THEN 0 ELSE 1
InFlight == Busy(wl) + Busy(pt) + Busy(lo) + Busy(cc)

CompleteLoginStart ==
    /\ wl.pc = "idle"
    /\ InFlight < MaxInFlight
    /\ wl' = [IdleWl EXCEPT !.pc = "polling", !.interval = InitialInterval]
    /\ cancelAt' = None
    /\ UNCHANGED <<configs, token, flow, pt, lo, cc, usageVars, aggVars>>

WaitPoll(r) ==
    LET n == wl.attempts + 1
        v == FlowVerdict(r, n)
        res == IF v = "err" THEN WaitForLoginOnErr(r) ELSE "none" IN
    /\ wl.pc = "polling"
    /\ r \in PollResults
    /\ wl' = [wl EXCEPT !.attempts = n, !.last = r,
                        !.slept = wl.interval,
                        !.interval = NextInterval(wl.interval, r),
                        !.pc = CASE v = "continue" -> "polling"
                                 [] v = "ok" -> "save_load"
                                 [] OTHER -> "done",
                        !.result = res]
    /\ token' = IF r.kind = "Token" THEN Some(r.value) ELSE token
    /\ flow' = CompleteLoginFlow(res, flow)
    /\ UNCHANGED <<configs, pt, lo, cc, cancelAt, usageVars, aggVars>>

WaitSaveLoad ==
    /\ wl.pc = "save_load"
    /\ wl' = [wl EXCEPT !.pc = "save_write", !.snap = configs]
    /\ UNCHANGED <<configs, token, flow, pt, lo, cc, cancelAt, usageVars, aggVars>>

WaitSaveWrite(ok) ==
    /\ wl.pc = "save_write"
    /\ configs' = IF ok THEN SaveTokenList(wl.snap, wl.last.value) ELSE configs
    /\ wl' = [wl EXCEPT !.pc = "done", !.snap = <<>>, !.result = WaitForLoginOnSave(ok)]
    /\ flow' = CompleteLoginFlow(WaitForLoginOnSave(ok), flow)
    /\ UNCHANGED <<token, pt, lo, cc, cancelAt, usageVars, aggVars>>

WaitReturn ==
    /\ wl.pc = "done"
    /\ wl' = IdleWl
    /\ cancelAt' = None
    /\ UNCHANGED <<configs, token, flow, pt, lo, cc, usageVars, aggVars>>

\* ---- poll_for_token, behind poll_github_token and check_github_login_status
\* The reply of the two commands for a poll result.
\* A command that counts every poll without a token as a failure.
CommandReplyNoTokenIsErr(r) ==
    IF r.kind = "Token" THEN "Ok(success)" ELSE "Err(Error)"

CommandReply(r) ==
    CASE r.kind = "Token" -> "Ok(success)"
      [] r.kind = "Pending" -> "Ok(pending)"
      [] r.kind = "SlowDown" -> "Ok(slow_down)"
      [] r.kind = "Expired" -> "Err(Token expired)"
      [] r.kind = "AccessDenied" -> "Err(Access denied)"
      [] OTHER -> "Err(Error)"

\* poll_for_token returns the poll result; a failed save is only logged.
PollForTokenReturn(r, saved) == r

IdlePt ==
    [pc |-> "idle", res |-> NoPoll, snap |-> <<>>, returned |-> NoPoll,
     reply |-> "none"]

PollCommand(via, r) ==
    /\ pt.pc = "idle"
    /\ InFlight < MaxInFlight
    /\ via \in {"poll_github_token", "check_github_login_status"}
    /\ via = "check_github_login_status" => IsSome(flow)
    /\ r \in PollResults
    /\ token' = IF r.kind = "Token" THEN Some(r.value) ELSE token
    /\ pt' = IF r.kind = "Token"
             THEN [IdlePt EXCEPT !.pc = "save_load", !.res = r]
             ELSE [IdlePt EXCEPT !.pc = "done", !.res = r,
                                 !.returned = PollForTokenReturn(r, FALSE),
                                 !.reply = CommandReply(PollForTokenReturn(r, FALSE))]
    /\ UNCHANGED <<configs, flow, wl, lo, cc, cancelAt, usageVars, aggVars>>

CheckStatusNoFlow ==
    /\ pt.pc = "idle"
    /\ InFlight < MaxInFlight
    /\ flow = None
    /\ pt' = [IdlePt EXCEPT !.pc = "done",
                            !.reply = IF IsAuthenticated THEN "Ok(success)"
                                                         ELSE "Err(No login flow)"]
    /\ UNCHANGED <<configs, token, flow, wl, lo, cc, cancelAt, usageVars, aggVars>>

PollSaveLoad ==
    /\ pt.pc = "save_load"
    /\ pt' = [pt EXCEPT !.pc = "save_write", !.snap = configs]
    /\ UNCHANGED <<configs, token, flow, wl, lo, cc, cancelAt, usageVars, aggVars>>

PollSaveWrite(ok) ==
    /\ pt.pc = "save_write"
    /\ configs' = IF ok THEN SaveTokenList(pt.snap, pt.res.value) ELSE configs
    /\ pt' = [pt EXCEPT !.pc = "done", !.snap = <<>>,
                        !.returned = PollForTokenReturn(pt.res, ok),
                        !.reply = CommandReply(PollForTokenReturn(pt.res, ok))]
    /\ UNCHANGED <<token, flow, wl, lo, cc, cancelAt, usageVars, aggVars>>

PollReturn ==
    /\ pt.pc = "done"
    /\ pt' = IdlePt
    /\ UNCHANGED <<configs, token, flow, wl, lo, cc, cancelAt, usageVars, aggVars>>

\* ---- logout
IdleLo == [pc |-> "idle", snap |-> <<>>, ret |-> "none"]

LogoutStart ==
    /\ lo.pc = "idle"
    /\ InFlight < MaxInFlight
    /\ token' = None
    /\ lo' = [IdleLo EXCEPT !.pc = "load"]
    /\ UNCHANGED <<configs, flow, wl, pt, cc, cancelAt, usageVars, aggVars>>

\* A logout that saves the list whether or not it found the entry.
LogoutLoadAlwaysWrites ==
    /\ lo.pc = "load"
    /\ lo' = [lo EXCEPT !.pc = "write", !.snap = configs]
    /\ UNCHANGED <<configs, token, flow, wl, pt, cc, cancelAt, usageVars, aggVars>>

LogoutLoad ==
    /\ lo.pc = "load"
    /\ lo' = IF FindFirst(configs, CopilotId) > 0
             THEN [lo EXCEPT !.pc = "write", !.snap = configs]
             ELSE [lo EXCEPT !.pc = "done", !.ret = "Ok"]
    /\ UNCHANGED <<configs, token, flow, wl, pt, cc, cancelAt, usageVars, aggVars>>

LogoutWrite(ok) ==
    /\ lo.pc = "write"
    /\ configs' = IF ok THEN LogoutList(lo.snap) ELSE configs
    /\ lo' = [lo EXCEPT !.pc = "done", !.snap = <<>>, !.ret = IF ok THEN "Ok" ELSE "Err"]
    /\ UNCHANGED <<token, flow, wl, pt, cc, cancelAt, usageVars, aggVars>>

LogoutReturn ==
    /\ lo.pc = "done"
    /\ lo' = IdleLo
    /\ UNCHANGED <<configs, token, flow, wl, pt, cc, cancelAt, usageVars, aggVars>>

\* ---- the config commands
SaveInputs ==
    {Entry("openai", "sk-1", TRUE), Entry(CopilotId, "gho_old", TRUE)}
RemoveInputs == {CopilotId, "openai"}
WholeListInputs ==
    {<<>>, <<Entry("openai", "sk-1", TRUE), Entry(CopilotId, "gho_old", TRUE)>>,
     <<Entry("openai", "sk-1", TRUE), Entry("openai", "sk-1", TRUE)>>}
InitialConfigs ==
    {<<>>, <<Entry(CopilotId, "gho_old", TRUE)>>,
     <<Entry("openai", "sk-1", TRUE), Entry(CopilotId, "", TRUE)>>}

IdleCc ==
    [pc |-> "idle", kind |-> "", arg |-> Entry("", "", FALSE), snap |-> <<>>,
     ret |-> "none"]

SaveProviderConfigLoad(c) ==
    /\ cc.pc = "idle"
    /\ InFlight < MaxInFlight
    /\ c \in SaveInputs
    /\ cc' = [IdleCc EXCEPT !.pc = "write", !.kind = "save", !.arg = c, !.snap = configs]
    /\ UNCHANGED <<configs, token, flow, wl, pt, lo, cancelAt, usageVars, aggVars>>

RemoveProviderConfigLoad(id) ==
    /\ cc.pc = "idle"
    /\ InFlight < MaxInFlight
    /\ id \in RemoveInputs
    /\ cc' = [IdleCc EXCEPT !.pc = "write", !.kind = "remove",
                            !.arg = Entry(id, "", FALSE), !.snap = configs]
    /\ UNCHANGED <<configs, token, flow, wl, pt, lo, cancelAt, usageVars, aggVars>>

ConfigCommandWrite(ok) ==
    /\ cc.pc = "write"
    /\ configs' = IF ~ok THEN configs
                  ELSE IF cc.kind = "save" THEN UpsertConfig(cc.snap, cc.arg)
                  ELSE RemoveConfig(cc.snap, cc.arg.provider_id)
    /\ cc' = [IdleCc EXCEPT !.ret = IF ok THEN "Ok" ELSE "Err"]
    /\ UNCHANGED <<token, flow, wl, pt, lo, cancelAt, usageVars, aggVars>>

SaveProviderConfigs(list, ok) ==
    /\ list \in WholeListInputs
    /\ configs' = IF ok THEN StoredList(list) ELSE configs
    /\ UNCHANGED <<token, flow, wl, pt, lo, cc, cancelAt, usageVars, aggVars>>

\* ---- initialize_from_config, and the device-flow state commands
InitializeFromConfig ==
    /\ token' = InitToken(configs, token)
    /\ UNCHANGED <<configs, flow, wl, pt, lo, cc, cancelAt, usageVars, aggVars>>

DeviceFlowState == [device_code |-> "dc-1", interval |-> InitialInterval]

\* A command that stores a flow state whether or not one was obtained.
InitiateStoresAlways(ok) == flow' = Some(DeviceFlowState)

\* initiate_github_login: the flow state is stored in the Ok arm only.
InitiateStores(ok) == flow' = IF ok THEN Some(DeviceFlowState) ELSE flow

InitiateReply(ok) ==
    IF ok THEN "Ok(user_code, verification_uri, device_code)"
    ELSE "Err(Failed to initiate login)"

InitiateLogin(ok) ==
    /\ InitiateStores(ok)
    /\ UNCHANGED <<configs, token, wl, pt, lo, cc, cancelAt, usageVars, aggVars>>

\* The same command with its reply kept.
InitiateLoginCall(ok) ==
    /\ app = NoApp
    /\ InitiateStores(ok)
    /\ app' = [fn |-> "initiate_github_login", arg |-> ok, out |-> InitiateReply(ok)]
    /\ UNCHANGED <<configs, token, wl, pt, lo, cc, cancelAt, usageVars, aggConfigs,
                   aggPc, aggTasks, aggResult, refreshVars, agentVars>>

\* cancel_github_login only clears the stored flow state.
CancelLogin ==
    /\ flow' = None
    /\ cancelAt' = IF wl.pc = "polling" /\ cancelAt = None
                   THEN Some(wl.attempts) ELSE cancelAt
    /\ UNCHANGED <<configs, token, wl, pt, lo, cc, usageVars, aggVars>>

(***************************************************************************)
(* Specifications                                                          *)
(***************************************************************************)

UsageQuiet == call = IdleCall /\ netCalls = 0
RefreshQuiet ==
    /\ autoRefresh = FALSE
    /\ refreshers = [t \in Triggers |-> IdleRefresher]
    /\ fetching = {}
    /\ outbound = [id \in ConfigIds |-> 0]
PureQuiet == app = NoApp
AgentQuiet == agent_process = None /\ alive = {} /\ spawned = 0
AggQuiet ==
    /\ aggConfigs = <<>> /\ aggPc = "idle" /\ aggTasks = <<>> /\ aggResult = <<>>
    /\ RefreshQuiet /\ PureQuiet /\ AgentQuiet
AuthQuiet ==
    /\ configs = <<>> /\ token = None /\ flow = None
    /\ wl = IdleWl /\ pt = IdlePt /\ lo = IdleLo /\ cc = IdleCc
    /\ cancelAt = None

\* One provider, called again and again with every configuration.
InitProvider == UsageQuiet /\ AggQuiet /\ AuthQuiet
NextProvider ==
    \/ \E cfg \in ProviderConfigs : Invoke(cfg)
    \/ \E p \in RegisteredIds : \E o \in BackendOutcomes(p) : Respond(o)
    \/ GcloudNeverExits
    \/ Finish
SpecProvider == InitProvider /\ [][NextProvider]_vars

\* One get_all_usage over each configured set.
InitAggregator ==
    /\ UsageQuiet /\ AuthQuiet
    /\ aggConfigs \in ConfigLists
    /\ aggPc = "idle" /\ aggTasks = <<>> /\ aggResult = <<>>
    /\ RefreshQuiet /\ PureQuiet /\ AgentQuiet
NextAggregator ==
    \/ GetAllUsageStart
    \/ \E i \in 1..Len(aggConfigs) :
          \E o \in BackendOutcomes(ProviderFor(aggConfigs[i].provider_id)) :
             TaskRespond(i, o)
    \/ \E i \in 1..Len(aggConfigs) : TaskTimeout(i)
    \/ \E i \in 1..Len(aggConfigs) : TaskGcloudNeverExits(i)
    \/ GetAllUsageJoin
SpecAggregator == InitAggregator /\ [][NextAggregator]_vars

\* The same, with time passing: a timeout that can fire does fire, and the
\* join that can complete does complete.  No backend is bound to answer.
SpecAggregatorFair ==
    /\ SpecAggregator
    /\ WF_vars(\E i \in 1..Len(aggConfigs) : TaskTimeout(i))
    /\ WF_vars(GetAllUsageJoin)

\* The three triggers of a refresh, over each configured set with keys.
RefreshConfigLists ==
    {cs \in ConfigLists : \A i \in 1..Len(cs) : cs[i].api_key # ""}
InitRefresh ==
    /\ UsageQuiet /\ AuthQuiet
    /\ aggConfigs \in RefreshConfigLists
    /\ aggPc = "idle" /\ aggTasks = <<>> /\ aggResult = <<>>
    /\ RefreshQuiet /\ PureQuiet /\ AgentQuiet
NextRefresh ==
    \/ \E enabled \in BOOLEAN : ToggleAutoRefresh(enabled)
    \/ \E t \in Triggers : RefreshStart(t)
    \/ \E id \in ConfigIds : FetchEnds(id)
    \/ \E t \in Triggers : RefreshReturn(t)
SpecRefresh == InitRefresh /\ [][NextRefresh]_vars

\* The pure functions, applied to every input.
InitPure == UsageQuiet /\ AggQuiet /\ AuthQuiet
NextPure ==
    \/ \E input \in {None} \cup {Some(t) : t \in Texts} :
          \E account_name \in AccountNames : MaskCall(input, account_name)
    \/ \E reply \in EndpointReplies : PollOnceCall(reply)
    \/ AppReturn
SpecPure == InitPure /\ [][NextPure]_vars

\* The status command, run on the records of one aggregation.
NextStatus ==
    \/ /\ app = NoApp
       /\ \E usage \in StatusUsages : \E show_all \in BOOLEAN : \E json \in BOOLEAN :
             ShowStatusCall(usage, show_all, json)
    \/ AppReturn
SpecStatus == InitPure /\ [][NextStatus]_vars

\* The agent commands, and the agent processes exiting when they will.
NextAgent ==
    \/ AgentCommand
    \/ \E pid \in 1..MaxSpawns : AgentExits(pid)
    \/ AppReturn
SpecAgent == InitPure /\ [][NextAgent]_vars

\* The authentication manager and the commands, interleaved at their awaits.
InitAuth ==
    /\ UsageQuiet /\ AggQuiet
    /\ configs \in InitialConfigs
    /\ token = None /\ flow = None
    /\ wl = IdleWl /\ pt = IdlePt /\ lo = IdleLo /\ cc = IdleCc
    /\ cancelAt = None
NextAuth ==
    \/ CompleteLoginStart
    \/ \E r \in PollResults : WaitPoll(r)
    \/ WaitSaveLoad
    \/ \E ok \in BOOLEAN : WaitSaveWrite(ok)
    \/ WaitReturn
    \/ \E via \in {"poll_github_token", "check_github_login_status"} :
          \E r \in PollResults : PollCommand(via, r)
    \/ CheckStatusNoFlow
    \/ PollSaveLoad
    \/ \E ok \in BOOLEAN : PollSaveWrite(ok)
    \/ PollReturn
    \/ LogoutStart
    \/ LogoutLoad
    \/ \E ok \in BOOLEAN : LogoutWrite(ok)
    \/ LogoutReturn
    \/ \E c \in SaveInputs : SaveProviderConfigLoad(c)
    \/ \E id \in RemoveInputs : RemoveProviderConfigLoad(id)
    \/ \E ok \in BOOLEAN : ConfigCommandWrite(ok)
    \/ \E list \in WholeListInputs : \E ok \in BOOLEAN : SaveProviderConfigs(list, ok)
    \/ InitializeFromConfig
    \/ \E ok \in BOOLEAN : InitiateLogin(ok)
    \/ CancelLogin
SpecAuth == InitAuth /\ [][NextAuth]_vars
\* wait_for_login alone, against the commands that finish in one step.
NextLogin ==
    \/ CompleteLoginStart
    \/ \E r \in PollResults : WaitPoll(r)
    \/ WaitSaveLoad
    \/ \E ok \in BOOLEAN : WaitSaveWrite(ok)
    \/ WaitReturn
    \/ \E list \in WholeListInputs : \E ok \in BOOLEAN : SaveProviderConfigs(list, ok)
    \/ InitializeFromConfig
    \/ \E ok \in BOOLEAN : InitiateLogin(ok)
    \/ CancelLogin
SpecLogin == InitAuth /\ [][NextLogin]_vars

\* The same, with the runtime resuming the waiting task at each of its
\* awaits and the server answering each poll.
WaitStep ==
    \/ \E r \in PollResults : WaitPoll(r)
    \/ WaitSaveLoad
    \/ \E ok \in BOOLEAN : WaitSaveWrite(ok)
SpecLoginFair == SpecLogin /\ WF_vars(WaitStep)

\* The commands one at a time: a command starts only when no other is
\* running, and runs to its return.
NextSerial ==
    \/ /\ InFlight = 0
       /\ \/ CompleteLoginStart
          \/ \E via \in {"poll_github_token", "check_github_login_status"} :
                \E r \in PollResults : PollCommand(via, r)
          \/ CheckStatusNoFlow
          \/ LogoutStart
          \/ \E c \in SaveInputs : SaveProviderConfigLoad(c)
          \/ \E id \in RemoveInputs : RemoveProviderConfigLoad(id)
          \/ \E list \in WholeListInputs : \E ok \in BOOLEAN :
                SaveProviderConfigs(list, ok)
          \/ InitializeFromConfig
          \/ \E ok \in BOOLEAN : InitiateLogin(ok)
          \/ CancelLogin
    \/ \E r \in PollResults : WaitPoll(r)
    \/ WaitSaveLoad
    \/ \E ok \in BOOLEAN : WaitSaveWrite(ok)
    \/ WaitReturn
    \/ PollSaveLoad
    \/ \E ok \in BOOLEAN : PollSaveWrite(ok)
    \/ PollReturn
    \/ LogoutLoad
    \/ \E ok \in BOOLEAN : LogoutWrite(ok)
    \/ LogoutReturn
    \/ \E ok \in BOOLEAN : ConfigCommandWrite(ok)
\* The persisted lists a run of single commands starts from: those of
\* InitialConfigs, and lists whose github-copilot entry is hidden from the tray.
SerialInitialConfigs ==
    InitialConfigs \cup
    {<<Entry(CopilotId, "gho_old", FALSE), Entry("openai", "sk-1", TRUE)>>,
     <<Entry("openai", "sk-1", FALSE), Entry(CopilotId, "", FALSE)>>}
InitSerial ==
    /\ UsageQuiet /\ AggQuiet
    /\ configs \in SerialInitialConfigs
    /\ token = None /\ flow = None
    /\ wl = IdleWl /\ pt = IdlePt /\ lo = IdleLo /\ cc = IdleCc
    /\ cancelAt = None
SpecSerial == InitSerial /\ [][NextSerial]_vars

\* The commands one at a time, the reply of initiate_github_login kept
\* until the caller has taken it.
NextReplies ==
    \/ NextSerial
    \/ InFlight = 0 /\ \E ok \in BOOLEAN : InitiateLoginCall(ok)
    \/ AppReturn
SpecReplies == InitSerial /\ [][NextReplies]_vars

(***************************************************************************)
(* Properties                                                              *)
(***************************************************************************)

\* The providers that read api_key and cannot work without it.
CredentialProviders ==
    {"codex", "deepseek", "minimax", "synthetic", "generic-pay-as-you-go"}
MissingCredentialTexts == {"API Key missing", "API Key not found"}
HttpFailureKinds == {"conn_fail", "http_error", "bad_body"}

\* C1: every call of get_usage returns at least one record, whatever the
\* provider, the configuration (an empty api_key included) and the backend's
\* answer.
C1_EveryCallYieldsARecord ==
    call.pc = "returned" => Len(call.records) >= 1

\* C2: a provider that needs a credential, called with an empty api_key,
\* returns exactly one record, unavailable, whose description says the
\* credential is missing.
C2_MissingKeyYieldsOneStatusRecord ==
    (/\ call.pc = "returned"
     /\ call.provider \in CredentialProviders
     /\ call.config.api_key = "")
    => /\ Len(call.records) = 1
       /\ ~call.records[1].is_available
       /\ call.records[1].description \in MissingCredentialTexts

\* C3: a transport failure, a non-success status or an unparsable body gives
\* exactly one record and that record is unavailable.
C3_BackendFailureYieldsUnavailable ==
    (call.pc = "returned" /\ call.outcome.kind \in HttpFailureKinds)
    => /\ Len(call.records) = 1
       /\ ~call.records[1].is_available

\* C4: the list get_all_usage returns holds a record for every configured
\* provider, also when providers fail or time out.
C4_OneRecordPerConfiguredProvider ==
    aggPc = "done" =>
        \A i \in 1..Len(aggConfigs) :
            \E k \in 1..Len(aggResult) :
                aggResult[k].provider_id = aggConfigs[i].provider_id

HasCopilotKey(cs, t) ==
    /\ FindFirst(cs, CopilotId) > 0
    /\ cs[FindFirst(cs, CopilotId)].api_key = t

\* C5: once a poll of the wait returned Expired, AccessDenied or Error, the
\* wait is over with a failure and no further poll can be made.
C5_TerminalFailureEndsTheWait ==
    wl.last.kind \in TerminalFailures =>
        /\ wl.pc = "done"
        /\ wl.result = "false"
        /\ ~ENABLED (\E r \in PollResults : WaitPoll(r))

C5_DeniedAfterPending ==
    /\ wl.pc = "done"
    /\ wl.last.kind = "AccessDenied"
    /\ wl.attempts = 2
    /\ wl.result = "false"

\* C6: Pending and SlowDown do not end the loop: while fewer than MaxAttempts
\* polls were made the wait is still polling, has reported nothing, and the
\* next poll can be issued.
C6_PendingKeepsPolling ==
    (wl.last.kind \in {"Pending", "SlowDown"} /\ wl.attempts < MaxAttempts)
    => /\ wl.pc = "polling"
       /\ wl.result = "none"
       /\ ENABLED (\E r \in PollResults : WaitPoll(r))

C6_StillPollingAfterSlowDown ==
    /\ wl.pc = "polling"
    /\ wl.last.kind = "SlowDown"
    /\ wl.attempts = 1
    /\ wl.interval = InitialInterval + SlowDownStep

\* C7: the step in which wait_for_login comes to return true leaves the
\* polled token in the persisted github-copilot entry.
C7_TrueOnlyAfterPersisting ==
    [][(wl.result # "true" /\ wl'.result = "true")
          => (wl'.last.kind = "Token" /\ HasCopilotKey(configs', wl'.last.value))]_vars

C7_ReturnedTrue ==
    /\ wl.pc = "done"
    /\ wl.result = "true"
    /\ HasCopilotKey(configs, "gho_new")

\* C8: whenever is_authenticated() is true, the persisted configuration has
\* a github-copilot entry with a non-empty api_key.
C8_AuthenticatedImpliesPersistedKey ==
    IsAuthenticated =>
        /\ FindFirst(configs, CopilotId) > 0
        /\ configs[FindFirst(configs, CopilotId)].api_key # ""

\* C9: when poll_for_token returns Token(t), the persisted github-copilot
\* entry holds t, is_authenticated() is true and get_current_token() is t.
C9_ReturnedTokenIsPersisted ==
    [][(pt.pc # "done" /\ pt'.pc = "done" /\ pt'.returned.kind = "Token")
          => /\ HasCopilotKey(configs', pt'.returned.value)
             /\ token' = Some(pt'.returned.value)]_vars

\* C10: after cancel_github_login was issued during the polling, the wait
\* sends no further poll.
C10_NoPollAfterCancel ==
    IsSome(cancelAt) => wl.attempts = Unwrap(cancelAt)
\* C11: a wait that is polling always comes to its end, after at most
\* MaxAttempts polls; polls that all return Pending or SlowDown end it with
\* a failure.
C11_WaitTerminates ==
    /\ [](wl.attempts <= MaxAttempts)
    /\ (wl.pc = "polling") ~>
           (/\ wl.pc = "done"
            /\ (wl.last.kind \in {"Pending", "SlowDown"} => wl.result = "false"))

C11_GaveUpOnPending ==
    /\ wl.pc = "done"
    /\ wl.attempts = MaxAttempts
    /\ wl.last.kind = "Pending"
    /\ wl.result = "false"
\* C12: initialize_from_config never writes the persisted list; when the
\* list holds a github-copilot entry with a non-empty api_key, at whatever
\* position, the in-memory token becomes that key; otherwise the in-memory
\* token is left as it was.
C12_InitializeLoadsPersistedToken ==
    [][InitializeFromConfig =>
          /\ configs' = configs
          /\ IF \E i \in 1..Len(configs) :
                    configs[i].provider_id = CopilotId /\ configs[i].api_key # ""
             THEN \E i \in 1..Len(configs) :
                    /\ configs[i].provider_id = CopilotId
                    /\ configs[i].api_key # ""
                    /\ token' = Some(configs[i].api_key)
             ELSE token' = token]_vars

C12_LoadedFromSecondEntry ==
    /\ Len(configs) = 2
    /\ configs[2].provider_id = CopilotId
    /\ configs[2].api_key = "gho_old"
    /\ token = Some("gho_old")
\* The list cs with the api_key of its github-copilot entry set to k and
\* nothing else touched.
SameButCopilotKey(cs, ds, k) ==
    /\ Len(ds) = Len(cs)
    /\ \A i \in 1..Len(cs) :
          ds[i] = IF cs[i].provider_id = CopilotId
                  THEN [cs[i] EXCEPT !.api_key = k]
                  ELSE cs[i]
HoldsCopilot(cs) == \E i \in 1..Len(cs) : cs[i].provider_id = CopilotId

\* C13: the step that completes a logout on a list holding a github-copilot
\* entry leaves no in-memory token, and leaves the persisted list as it was
\* except that the entry's api_key is empty.
C13_LogoutClearsOnlyTheKey ==
    [][(lo.pc = "write" /\ lo'.pc = "done" /\ lo'.ret = "Ok")
          => /\ HoldsCopilot(configs)
             /\ token' = None
             /\ SameButCopilotKey(configs, configs', "")]_vars

C13_LoggedOutKeepingTheEntry ==
    /\ lo.pc = "done"
    /\ lo.ret = "Ok"
    /\ token = None
    /\ configs = <<Entry(CopilotId, "", FALSE), Entry("openai", "sk-1", TRUE)>>

\* C14: a logout that finds no github-copilot entry in the persisted list
\* returns success at once, without a write: the list is left as it is.
C14_LogoutWithoutEntryIsNoOp ==
    [][(lo.pc = "load" /\ lo' # lo /\ ~HoldsCopilot(configs))
          => /\ lo'.pc = "done"
             /\ lo'.ret = "Ok"
             /\ configs' = configs]_vars

C14_LoggedOutOfNothing ==
    /\ lo.pc = "done"
    /\ lo.ret = "Ok"
    /\ configs = <<Entry("openai", "sk-1", TRUE)>>

\* C15: the step in which save_token writes either fails and leaves the
\* persisted list alone, or sets the api_key of the github-copilot entry and
\* touches nothing else, or, when there is no such entry, appends the entry
\* {github-copilot, t, show_in_tray true} after the unchanged entries.
SavedToken(cs, ds, t) ==
    IF HoldsCopilot(cs)
    THEN SameButCopilotKey(cs, ds, t)
    ELSE ds = cs \o <<[provider_id |-> CopilotId, api_key |-> t,
                       show_in_tray |-> TRUE]>>

C15_SaveTokenUpserts ==
    [][/\ (wl.pc = "save_write" /\ wl'.pc = "done")
          => /\ configs' = configs \/ SavedToken(configs, configs', wl.last.value)
             /\ wl'.result = "true" => SavedToken(configs, configs', wl.last.value)
       /\ (pt.pc = "save_write" /\ pt'.pc = "done")
          => (configs' = configs \/ SavedToken(configs, configs', pt.res.value))]_vars

C15_UpdatedInPlace ==
    /\ wl.pc = "done"
    /\ wl.result = "true"
    /\ configs = <<Entry(CopilotId, "gho_new", FALSE), Entry("openai", "sk-1", TRUE)>>
\* C16: the result of a wait that ended on a terminal failure could not have
\* come from a wait that ended on another terminal failure: expiry, denial
\* and transport error give different results.
C16_FailureReasonIsTold ==
    (wl.pc = "done" /\ wl.last.kind \in TerminalFailures)
    => \A r \in PollResults :
          (r.kind \in TerminalFailures /\ r.kind # wl.last.kind)
             => WaitForLoginOnErr(r) # wl.result

\* C17: an operation whose save_config failed, so that the list it meant to
\* write is not the persisted one, does not report success: wait_for_login,
\* poll_for_token, logout, save_provider_config, remove_provider_config.
C17_FailedSaveIsReported ==
    [][/\ (/\ wl.pc = "save_write" /\ wl'.pc = "done"
           /\ ~SavedToken(configs, configs', wl.last.value))
          => wl'.result = "error"
       /\ (/\ pt.pc = "save_write" /\ pt'.pc = "done"
           /\ ~SavedToken(configs, configs', pt.res.value))
          => pt'.reply # "Ok(success)"
       /\ (/\ lo.pc = "write" /\ lo'.pc = "done"
           /\ ~SameButCopilotKey(configs, configs', ""))
          => lo'.ret = "Err"
       /\ (/\ cc.pc = "write" /\ cc'.pc = "idle"
           /\ configs' # (IF cc.kind = "save"
                          THEN UpsertConfig(configs, cc.arg)
                          ELSE RemoveConfig(configs, cc.arg.provider_id)))
          => cc'.ret = "Err"]_vars
\* C20: a get_usage whose local command never exits has returned one
\* unavailable record (the wait was cut short and the child killed); it is
\* never left waiting for the command.
C20_CommandWaitIsBounded ==
    call.outcome.kind \in {"cmd_timeout", "cmd_hang"}
    => /\ call.pc = "returned"
       /\ Len(call.records) = 1
       /\ ~call.records[1].is_available
C18_OneFetchPerProviderInFlight ==
    \A id \in ConfigIds : outbound[id] <= 1

\* Two refreshes overlap on a provider and share its one outbound call.
C18_OverlapSharesOneFetch ==
    \E id \in ConfigIds :
       /\ outbound[id] = 1
       /\ refreshers["auto"].pc = "running" /\ id \in refreshers["auto"].awaiting
       /\ refreshers["refresh_usage"].pc = "running"
       /\ id \in refreshers["refresh_usage"].awaiting
\* C21: a provider that needs a credential, called with an empty api_key,
\* starts no request, and what it returns is its one unavailable record.
C21_NoRequestWithoutKey ==
    (/\ call.pc # "idle"
     /\ call.provider \in CredentialProviders
     /\ call.config.api_key = "")
    => /\ netCalls = 0
       /\ call.pc = "returned"
       /\ Len(call.records) = 1
       /\ ~call.records[1].is_available
\* C22: one poll maps the endpoint's reply to one of the six results:
\* authorization_pending to Pending, slow_down to SlowDown, expired_token to
\* Expired, access_denied to AccessDenied, a reply with an access_token to
\* Token(that value), and every other reply to Error.
C22_PollOnceMapsTheReply ==
    app.fn = "poll_once" =>
       LET reply == app.arg
           r == app.out
           code(e) == reply.kind = "json" /\ reply.access_token = None
                      /\ reply.error = Some(e) IN
       /\ r.kind \in {"Pending", "SlowDown", "Expired", "AccessDenied", "Token", "Error"}
       /\ code("authorization_pending") <=> r.kind = "Pending"
       /\ code("slow_down") <=> r.kind = "SlowDown"
       /\ code("expired_token") <=> r.kind = "Expired"
       /\ code("access_denied") <=> r.kind = "AccessDenied"
       /\ (reply.kind = "json" /\ IsSome(reply.access_token))
             <=> (r.kind = "Token" /\ r.value = Unwrap(reply.access_token))
       /\ r \in PollResults

\* The endpoint asked to slow down and the poll said SlowDown.
C22_SlowDownReplySeen ==
    /\ app.fn = "poll_once"
    /\ app.arg.error = Some("slow_down")
    /\ app.out = PollRes("SlowDown", "")
\* C23: a single-poll command that polled answers Ok("pending") to Pending
\* and Ok("slow_down") to SlowDown, and answers Err exactly to Expired,
\* AccessDenied and Error.
C23_TransientPollsAreNotErrors ==
    (pt.pc = "done" /\ pt.res.kind # "none") =>
       /\ pt.res.kind = "Pending" => pt.reply = "Ok(pending)"
       /\ pt.res.kind = "SlowDown" => pt.reply = "Ok(slow_down)"
       /\ pt.reply \in {"Err(Token expired)", "Err(Access denied)", "Err(Error)"}
             <=> pt.res.kind \in TerminalFailures
       /\ pt.reply \in {"Ok(pending)", "Ok(slow_down)", "Ok(success)",
                        "Err(Token expired)", "Err(Access denied)", "Err(Error)"}

\* A poll that was told to slow down was answered as a success, the flow
\* still stored.
C23_SlowDownAnsweredOk ==
    /\ pt.pc = "done"
    /\ pt.res.kind = "SlowDown"
    /\ pt.reply = "Ok(slow_down)"
    /\ IsSome(flow)
C25_SaveAndRemoveEditOneEntry ==
    [][(cc.pc = "write" /\ cc'.pc = "idle" /\ cc'.ret = "Ok") =>
          LET id == cc.arg.provider_id
              old == {i \in 1..Len(configs) : configs[i].provider_id = id}
              new == {i \in 1..Len(configs') : configs'[i].provider_id = id}
              kept == {i \in 1..Len(configs) : configs[i].provider_id # id} IN
          IF cc.kind = "save"
          THEN /\ Cardinality(new) = 1
               /\ \A i \in new : configs'[i] = cc.arg
               /\ old # {} => /\ new \subseteq old
                              /\ Len(configs') = Len(configs)
                              /\ \A i \in kept : configs'[i] = configs[i]
               /\ old = {} => configs' = configs \o <<cc.arg>>
               /\ (\E i \in old : configs[i] = cc.arg) => configs' = configs
          ELSE /\ new = {}
               /\ Len(configs') = Cardinality(kept)
               /\ \A i \in kept :
                     configs'[Cardinality({j \in kept : j <= i})] = configs[i]]_vars

\* A save replaced the first entry where it stood.
C25_ReplacedInPlace ==
    /\ cc.pc = "idle" /\ cc.ret = "Ok"
    /\ configs = <<Entry("openai", "sk-1", TRUE), Entry(CopilotId, "", FALSE)>>
\* C26: an initiate_github_login whose device authorization request failed
\* answers Err, stores no flow state, and leaves the in-memory token and the
\* persisted list as they were.
C26_FailedInitiateChangesNothing ==
    [][(app = NoApp /\ app'.fn = "initiate_github_login" /\ app'.arg = FALSE)
          => /\ app'.out = "Err(Failed to initiate login)"
             /\ flow' = flow
             /\ token' = token
             /\ configs' = configs]_vars

\* An initiate failed while the user was logged in and no flow was stored.
C26_InitiateFailedWhileLoggedIn ==
    /\ app.fn = "initiate_github_login"
    /\ app.out = "Err(Failed to initiate login)"
    /\ flow = None
    /\ token = Some("gho_new")
    /\ HasCopilotKey(configs, "gho_new")
\* C27: every record a provider returns has a usage_percentage from 0 to
\* 100, whatever used and limit values the backend reported.
C27_PercentageWithinBounds ==
    call.pc = "returned" =>
       \A k \in 1..Len(call.records) :
          /\ call.records[k].usage_percentage >= 0
          /\ call.records[k].usage_percentage <= 100

\* The mask of section 4.5, rule 2, counted in characters: asterisks for a
\* length up to 2, else the first character, len-2 asterisks, the last one.
LengthPreservingMask(str) ==
    IF Len(str) <= 2 THEN Stars(Len(str))
    ELSE <<str[1]>> \o Stars(Len(str) - 2) \o <<str[Len(str)]>>

\* The mask of section 4.5, rule 3, for one token: a token with '@' and '.'
\* has the part before its first '@' masked, the rest is kept.
EmailTokenMask(word) ==
    IF Contains(word, <<"@">>) /\ Contains(word, <<".">>)
    THEN LET at == FirstIndex(word, "@")
             local == SubSeq(word, 1, at - 1) IN
         (IF Len(local) <= 2 THEN Stars(Len(local))
          ELSE <<local[1], ".", ".", ".", local[Len(local)]>>)
         \o SubSeq(word, at, Len(word))
    ELSE word

\* Rule 3 over a text: every token masked on its own, the spaces kept.
RECURSIVE EmailTokensMasked(_, _)
EmailTokensMasked(str, word) ==
    IF str = <<>> THEN EmailTokenMask(word)
    ELSE IF Head(str) = " "
         THEN EmailTokenMask(word) \o <<" ">> \o EmailTokensMasked(Tail(str), <<>>)
         ELSE EmailTokensMasked(Tail(str), Append(word, Head(str)))

MaskedText == app.fn = "mask_content" /\ IsSome(app.arg.input)
                 /\ Unwrap(app.arg.input) # <<>>
AccountNameApplies == /\ IsSome(app.arg.account_name)
                      /\ Contains(Unwrap(app.arg.input), Unwrap(app.arg.account_name))

\* C28: when the account name is given and occurs in the text, mask_content
\* returns the text with every occurrence of the name replaced by the
\* length-preserving mask of the name, every other character unchanged, so
\* the output is as long as the input.
C28_AccountNameMaskKeepsLength ==
    (MaskedText /\ AccountNameApplies) =>
       LET text == Unwrap(app.arg.input)
           name == Unwrap(app.arg.account_name) IN
       /\ app.out.kind = "some"
       /\ Len(app.out.text) = Len(text)
       /\ app.out.text = Replace(text, name, LengthPreservingMask(name))

\* C29: when no account name applies and the text contains '@', mask_content
\* changes only the tokens holding both '@' and '.': the local part of each is
\* masked, its domain, every other token and the spacing are unchanged.
C29_OnlyEmailLocalPartsMasked ==
    (MaskedText /\ ~AccountNameApplies
       /\ Contains(Unwrap(app.arg.input), <<"@">>)) =>
       /\ app.out.kind = "some"
       /\ app.out.text = EmailTokensMasked(Unwrap(app.arg.input), <<>>)

\* C30: when no account name applies and the non-empty text has no '@',
\* mask_content returns the length-preserving mask of the whole text.
C30_WholeTextMaskKeepsLength ==
    (MaskedText /\ ~AccountNameApplies
       /\ ~Contains(Unwrap(app.arg.input), <<"@">>)) =>
       /\ app.out.kind = "some"
       /\ app.out.text = LengthPreservingMask(Unwrap(app.arg.input))

StatusShown == app.fn = "show_status"

\* C31: the account name of a usage record goes through mask_content before
\* it reaches the status output: no account name of a listed record is
\* shown as it is, in the table form or in the JSON form.
C31_StatusOutputIsMasked ==
    StatusShown =>
       LET shown == FilteredUsage(app.arg.usage, app.arg.show_all) IN
       \A k \in 1..Len(shown) :
          shown[k].account_name # <<>> =>
             \A r \in 1..Len(app.out.rows) :
                IF app.out.form = "table"
                THEN ~Contains(app.out.rows[r].cell, shown[k].account_name)
                ELSE app.out.rows[r].account_name # shown[k].account_name

\* C32: the status output lists the records in ascending case-insensitive
\* provider_name order, in the table form and in the JSON form.
C32_StatusOutputIsSorted ==
    StatusShown =>
       \A i, j \in 1..Len(app.out.rows) :
          i < j => ~StrLess(ToLowercase(app.out.rows[j].provider_name),
                            ToLowercase(app.out.rows[i].provider_name))

\* C33: the stored device-flow state is held only while a login is in
\* flight: once poll_github_token or check_github_login_status has seen the
\* flow succeed, expire or be denied, the stored state is cleared, so that no
\* later command polls with the old device_code.
C33_TerminalPollClearsFlow ==
    (pt.pc = "done" /\ pt.res.kind \in {"Token", "Expired", "AccessDenied"})
       => flow = None

GenericAnswered ==
    /\ call.pc = "returned"
    /\ call.provider \notin {"codex", "simulated", "deepseek", "minimax",
                             "synthetic", "cloud-code", "opencode-zen"}
    /\ call.outcome.kind = "ok"
    /\ call.outcome.body.shape \in {"json", "garbage"}

\* C34: for a successful response the generic provider uses the first schema
\* the body matches, in the order credits, subscription, balance, and takes
\* payment type, used and limit from it; a body that matches none of the
\* three gives the unavailable record "Unknown response format".
C34_FirstMatchingSchemaIsUsed ==
    GenericAnswered =>
       LET b == call.outcome.body
           u == call.records[1] IN
       /\ Len(call.records) = 1
       /\ IF b.shape = "json" /\ b.data = "credits"
          THEN /\ u.payment_type = "Credits"
               /\ u.cost_limit = b.total_credits /\ u.cost_used = b.used_credits
          ELSE IF b.shape = "json" /\ b.subscription = "valid"
          THEN /\ u.payment_type = "Quota"
               /\ u.cost_limit = b.limit /\ u.cost_used = b.requests
          ELSE IF b.shape = "json" /\ b.data = "balance"
          THEN /\ u.payment_type = "Credits"
               /\ u.cost_limit = b.available_balance /\ u.cost_used = 0
          ELSE /\ ~u.is_available
               /\ u.description = "Unknown response format"

\* C35: during complete_device_flow the polling interval changes only on
\* SlowDown, where it grows by the fixed step, and Pending leaves it as it
\* is: the interval never decreases, after k SlowDown results it is the
\* initial interval plus k steps, and every poll follows a sleep of the
\* interval that was current before it.
C35_IntervalGrowsOnlyOnSlowDown ==
    /\ [](wl.pc # "idle" =>
             \E k \in 0..wl.attempts :
                wl.interval = InitialInterval + k * SlowDownStep)
    /\ [][(wl.pc = "polling" /\ wl'.attempts = wl.attempts + 1) =>
             /\ wl'.slept = wl.interval
             /\ wl'.interval >= wl.interval
             /\ wl'.interval = IF wl'.last.kind = "SlowDown"
                               THEN wl.interval + SlowDownStep
                               ELSE wl.interval]_vars
C35_PendingAfterSlowDown ==
    /\ wl.attempts = 2
    /\ wl.last.kind = "Pending"
    /\ wl.slept = InitialInterval + SlowDownStep
    /\ wl.interval = InitialInterval + SlowDownStep

\* C36: the read-modify-write operations on the persisted list (save_token,
\* logout, save_provider_config, remove_provider_config) lose no update when
\* they overlap: each write leaves the list its operation makes of the list
\* persisted at that moment, so the final list is that of the operations run
\* one after the other in the order of their writes.
C36_WritesLoseNoUpdate ==
    [][/\ (cc.pc = "write" /\ cc'.pc = "idle") =>
             configs' \in {configs,
                           IF cc.kind = "save" THEN UpsertConfig(configs, cc.arg)
                           ELSE RemoveConfig(configs, cc.arg.provider_id)}
       /\ (lo.pc = "write" /\ lo'.pc = "done") =>
             configs' \in {configs, LogoutList(configs)}
       /\ (wl.pc = "save_write" /\ wl'.pc = "done") =>
             configs' \in {configs, SaveTokenList(configs, wl.last.value)}
       /\ (pt.pc = "save_write" /\ pt'.pc = "done") =>
             configs' \in {configs, SaveTokenList(configs, pt.res.value)}]_vars

\* C37: start_agent spawns no second agent process while the one it started
\* earlier is still running: when try_wait shows the stored process running
\* it returns true and spawns nothing, so it spawns only when no started
\* process is alive.
C37_NoSecondAgentWhileRunning ==
    (app.fn = "start_agent" /\ app.arg.try_wait = "Ok(None)") =>
       /\ app.out.reply = "Ok(true)"
       /\ app.out.spawned = None
       /\ Cardinality(alive) <= 1

\* C38: after stop_agent returned, the agent process that was stored is no
\* longer running; and is_agent_running returns true exactly when the stored
\* process is still alive.
C38_StoppedAgentIsNotRunning ==
    /\ (app.fn = "stop_agent" /\ IsSome(app.arg.stored)) =>
          Unwrap(app.arg.stored) \notin alive
    /\ app.fn = "is_agent_running" =>
          (app.out.reply = "Ok(true)" <=> app.arg.try_wait = "Ok(None)")


====
